---- MODULE Spec2Model ----
(***************************************************************************)
(* The retrieval step of the RAG notebook (src/unnamed/part_000): the      *)
(* index-building cell, calculate_cosine_similarity and retrieve_documents.*)
(*                                                                         *)
(* Numbers.  The notebook computes in IEEE-754 binary floating point       *)
(* (numpy float64): every product, sum, square root and quotient is        *)
(* rounded to the nearest representable value, ties to even.  The model    *)
(* keeps that arithmetic and shortens the significand from 53 bits to      *)
(* Precision bits; a value is the record [m, e] standing for m * 2^e with  *)
(* 2^(Precision-1) <= |m| < 2^Precision, or [m |-> 0, e |-> 0] for zero.   *)
(* The exponent is unbounded: the inputs of the model are small integers,  *)
(* far from the overflow and underflow thresholds of float64.              *)
(***************************************************************************)
EXTENDS Integers, Sequences, FiniteSets, TLC

\* ---------------------------------------------------------------- bounds
Precision == 6
MaxVal == 2
MaxDim == 2
MaxCorpus == 3
MaxScale == 4
MaxEvents == 3

\* ------------------------------------------------- floating-point values
Zero == [m |-> 0, e |-> 0]

Abs(i) == IF i < 0 THEN -i ELSE i

Sgn(i) == IF i < 0 THEN -1 ELSE IF i = 0 THEN 0 ELSE 1

Min(i, j) == IF i < j THEN i ELSE j

Max(i, j) == IF i < j THEN j ELSE i

\* The float nearest to (n / d) * 2^e for integers n >= 0, d > 0: round to
\* nearest, ties to even, Precision significant bits.
RECURSIVE RoundToPrecision(_, _, _)
RoundToPrecision(n, d, e) ==
    IF n = 0 THEN Zero
    ELSE IF n >= d * 2^Precision THEN RoundToPrecision(n, 2 * d, e + 1)
    ELSE IF n < d * 2^(Precision - 1) THEN RoundToPrecision(2 * n, d, e - 1)
    ELSE LET q == n \div d
             r == n % d
             up == 2 * r > d \/ (2 * r = d /\ q % 2 = 1)
             m == IF up THEN q + 1 ELSE q
         IN  IF m = 2^Precision
             THEN [m |-> 2^(Precision - 1), e |-> e + 1]
             ELSE [m |-> m, e |-> e]

Signed(s, f) == [m |-> s * f.m, e |-> f.e]

\* np.array(values): a Python number becomes a float64.
FloatOf(i) == Signed(Sgn(i), RoundToPrecision(Abs(i), 1, 0))

One == FloatOf(1)

FMul(a, b) ==
    Signed(Sgn(a.m) * Sgn(b.m), RoundToPrecision(Abs(a.m) * Abs(b.m), 1, a.e + b.e))

FAdd(a, b) ==
    IF a.m = 0 THEN b
    ELSE IF b.m = 0 THEN a
    ELSE LET lo == Min(a.e, b.e)
             s == a.m * 2^(a.e - lo) + b.m * 2^(b.e - lo)
         IN  Signed(Sgn(s), RoundToPrecision(Abs(s), 1, lo))

\* a / b for b # 0.
FDiv(a, b) ==
    Signed(Sgn(a.m) * Sgn(b.m), RoundToPrecision(Abs(a.m), Abs(b.m), a.e - b.e))

\* sqrt(a) for a >= 0, correctly rounded (a square root is never a tie).
FSqrt(a) ==
    IF a.m = 0 THEN Zero
    ELSE LET s == IF (a.e - Precision) % 2 = 0 THEN Precision ELSE Precision - 1
             n == a.m * 2^s
             r == CHOOSE x \in 2^(Precision - 1) .. 2^Precision - 1 :
                      x * x <= n /\ n < (x + 1) * (x + 1)
             m == IF n > r * r + r THEN r + 1 ELSE r
             e == (a.e - s) \div 2
         IN  IF m = 2^Precision
             THEN [m |-> 2^(Precision - 1), e |-> e + 1]
             ELSE [m |-> m, e |-> e]

\* a < b and a <= b as floats.
FLess(a, b) ==
    LET lo == Min(a.e, b.e)
    IN  a.m * 2^(a.e - lo) < b.m * 2^(b.e - lo)

FLeq(a, b) == ~FLess(b, a)

\* An exception leaving a function, in place of a return value.
ValueError == [exc |-> "ValueError"]

IsRaise(r) == "exc" \in DOMAIN r

\* ------------------------------------------------------------ numpy calls
\* np.dot of two 1-D arrays: the sum of the elementwise products, or
\* ValueError (shapes not aligned) when the lengths differ.
RECURSIVE DotUpTo(_, _, _)
DotUpTo(v1, v2, i) ==
    IF i = 0 THEN Zero
    ELSE FAdd(DotUpTo(v1, v2, i - 1), FMul(FloatOf(v1[i]), FloatOf(v2[i])))

\* Faulty variant of np_dot: the shorter length decides, as with zip().
np_dot_truncating(v1, v2) == DotUpTo(v1, v2, Min(Len(v1), Len(v2)))

np_dot(v1, v2) ==
    IF Len(v1) # Len(v2) THEN ValueError ELSE DotUpTo(v1, v2, Len(v1))

\* Faulty variant of np_linalg_norm: the square root is left out.
np_linalg_norm_squared(v) == DotUpTo(v, v, Len(v))

\* np.linalg.norm of a 1-D real array: sqrt(dot(x, x)).
np_linalg_norm(v) == FSqrt(DotUpTo(v, v, Len(v)))

\* ---------------------------------------------- calculate_cosine_similarity
\* numpy's 0.0 / 0.0.
NaN == [nan |-> TRUE]

\* Faulty variant of calculate_cosine_similarity: no check for zero vectors.
calculate_cosine_similarity_unguarded(v1, v2) ==
    LET dot_product == np_dot(v1, v2)
        norm_vec1 == np_linalg_norm(v1)
        norm_vec2 == np_linalg_norm(v2)
    IN  IF IsRaise(dot_product) THEN dot_product
        ELSE IF FMul(norm_vec1, norm_vec2) = Zero THEN NaN
        ELSE FDiv(dot_product, FMul(norm_vec1, norm_vec2))

\* Faulty variant of calculate_cosine_similarity: norm_vec1 stands for both norms.
calculate_cosine_similarity_one_norm(v1, v2) ==
    LET dot_product == np_dot(v1, v2)
        norm_vec1 == np_linalg_norm(v1)
        norm_vec2 == np_linalg_norm(v2)
    IN  IF IsRaise(dot_product) THEN dot_product
        ELSE IF norm_vec1 = Zero \/ norm_vec2 = Zero THEN Zero
        ELSE FDiv(dot_product, FMul(norm_vec1, norm_vec1))

\* Faulty variant of calculate_cosine_similarity: the cosine distance,
\* 1 - similarity, is returned.
calculate_cosine_distance(v1, v2) ==
    LET dot_product == np_dot(v1, v2)
        norm_vec1 == np_linalg_norm(v1)
        norm_vec2 == np_linalg_norm(v2)
    IN  IF IsRaise(dot_product) THEN dot_product
        ELSE IF norm_vec1 = Zero \/ norm_vec2 = Zero THEN Zero
        ELSE FAdd(One, Signed(-1, FDiv(dot_product, FMul(norm_vec1, norm_vec2))))

\* Faulty variant of calculate_cosine_similarity: the dot product is returned
\* without dividing by the norms.
calculate_dot_similarity(v1, v2) ==
    LET dot_product == np_dot(v1, v2)
        norm_vec1 == np_linalg_norm(v1)
        norm_vec2 == np_linalg_norm(v2)
    IN  IF IsRaise(dot_product) THEN dot_product
        ELSE IF norm_vec1 = Zero \/ norm_vec2 = Zero THEN Zero
        ELSE dot_product

calculate_cosine_similarity(v1, v2) ==
    LET dot_product == np_dot(v1, v2)
        norm_vec1 == np_linalg_norm(v1)
        norm_vec2 == np_linalg_norm(v2)
    IN  IF IsRaise(dot_product) THEN dot_product
        ELSE IF norm_vec1 = Zero \/ norm_vec2 = Zero THEN Zero
        ELSE FDiv(dot_product, FMul(norm_vec1, norm_vec2))

\* ------------------------------------------------------- Python list calls
\* Faulty variant of InsertDescending: an item goes before the items equal to it (an
\* ascending sort reversed).
InsertBeforeTies(sorted, item) ==
    LET p == Cardinality({i \in 1 .. Len(sorted) : FLess(item[1], sorted[i][1])})
    IN  SubSeq(sorted, 1, p) \o <<item>> \o SubSeq(sorted, p + 1, Len(sorted))

\* list.sort(key=lambda item: item[0], reverse=True) on (similarity, text)
\* tuples: descending by similarity and stable, so an item goes after every
\* item already placed whose similarity is greater than or equal to its own.
InsertDescending(sorted, item) ==
    LET p == Cardinality({i \in 1 .. Len(sorted) : FLeq(item[1], sorted[i][1])})
    IN  SubSeq(sorted, 1, p) \o <<item>> \o SubSeq(sorted, p + 1, Len(sorted))

RECURSIVE SortUpTo(_, _)
SortUpTo(s, i) ==
    IF i = 0 THEN <<>> ELSE InsertDescending(SortUpTo(s, i - 1), s[i])

\* Faulty variant of sort_by_similarity: reverse=True is left out.
RECURSIVE SortAscendingUpTo(_, _)
SortAscendingUpTo(s, i) ==
    IF i = 0 THEN <<>>
    ELSE LET sorted == SortAscendingUpTo(s, i - 1)
             p == Cardinality({j \in 1 .. Len(sorted) : FLeq(sorted[j][1], s[i][1])})
         IN  SubSeq(sorted, 1, p) \o <<s[i]>> \o SubSeq(sorted, p + 1, Len(sorted))

sort_ascending(s) == SortAscendingUpTo(s, Len(s))

sort_by_similarity(s) == SortUpTo(s, Len(s))

\* Faulty variant of slice_to: s[:max(k, 0)], a negative k taken as 0.
slice_to_clamped(s, k) == SubSeq(s, 1, Min(Max(k, 0), Len(s)))

\* Faulty variant of slice_to: s[-k:], the last k items, for k >= 1.
slice_from_end(s, k) ==
    IF k >= 1 THEN SubSeq(s, Max(Len(s) - k, 0) + 1, Len(s))
    ELSE IF k = 0 THEN <<>>
    ELSE SubSeq(s, 1, Max(Len(s) + k, 0))

\* Faulty variant of slice_to: s[:k - 1].
slice_to_one_short(s, k) ==
    IF k - 1 >= 0 THEN SubSeq(s, 1, Min(k - 1, Len(s)))
    ELSE SubSeq(s, 1, Max(Len(s) + k - 1, 0))

\* s[:k]: the first k items for k >= 0 (all of them when k exceeds the
\* length), all but the last -k items for k < 0.
slice_to(s, k) ==
    IF k >= 0 THEN SubSeq(s, 1, Min(k, Len(s)))
    ELSE SubSeq(s, 1, Max(Len(s) + k, 0))

\* ------------------------------------------------------ the knowledge base
documents ==
    <<"Mercury", "Venus", "Earth", "Mars", "Jupiter", "Saturn", "Uranus", "Neptune">>

\* What the embedding service may return for a text.
EmbeddingPool == {<<1, 0>>, <<0, 1>>, <<1, 1>>, <<-1, 0>>, <<0, 0>>, <<1>>}

\* embed_query's ways to end: it returns the embedding the service gave, or
\* the service call raises.
EmbedAnswers ==
    {[raised |-> FALSE, values |-> v] : v \in EmbeddingPool} \cup
        {[raised |-> TRUE, values |-> <<>>]}

\* c * v for a number c and an array v.
Scaled(c, v) == [i \in 1 .. Len(v) |-> c * v[i]]

\* The query embeddings a similarity is asked for: those the service can
\* return, and their multiples.
QueryPool == {Scaled(c, v) : c \in 1 .. MaxScale, v \in EmbeddingPool}

\* zip(documents, embeddings) into {text, embedding} dictionaries.
zip_documents(docs, embs) ==
    [i \in 1 .. Min(Len(docs), Len(embs)) |-> [text |-> docs[i], embedding |-> embs[i]]]

\* ------------------------------------------------------ retrieve_documents
\* calculate_cosine_similarity(query_embedding, doc_data["embedding"]) for every
\* pair of embeddings the service can return, evaluated once.
\* (Merging with the empty function makes TLC tabulate it.)
similarity_of ==
    [pair \in QueryPool \X EmbeddingPool |->
        calculate_cosine_similarity(pair[1], pair[2])] @@ <<>>

\* The loop over document_embeddings: the (similarity, text) tuples of the
\* first i documents, cut short at the first comparison that raises.
RECURSIVE ScoreUpTo(_, _, _)
ScoreUpTo(corpus, qe, i) ==
    IF i = 0 THEN [raised |-> FALSE, list |-> <<>>]
    ELSE LET before == ScoreUpTo(corpus, qe, i - 1)
             similarity == similarity_of[<<qe, corpus[i].embedding>>]
         IN  IF before.raised THEN before
             ELSE IF IsRaise(similarity) THEN [raised |-> TRUE, list |-> before.list]
             ELSE [raised |-> FALSE,
                   list |-> Append(before.list, <<similarity, corpus[i].text>>)]

texts_of(s) == [i \in 1 .. Len(s) |-> s[i][2]]

\* Faulty variant of retrieve_documents: an empty index is an error.
retrieve_documents_needs_corpus(corpus, embedded, k) ==
    IF embedded.raised \/ corpus = <<>>
    THEN [outcome |-> "raised", similarities |-> <<>>, retrieved_texts |-> <<>>]
    ELSE LET scored == ScoreUpTo(corpus, embedded.values, Len(corpus))
             ranked == sort_by_similarity(scored.list)
         IN  IF scored.raised
             THEN [outcome |-> "raised", similarities |-> scored.list,
                   retrieved_texts |-> <<>>]
             ELSE [outcome |-> "returned", similarities |-> ranked,
                   retrieved_texts |-> texts_of(slice_to(ranked, k))]

\* One call: what it leaves in similarities and retrieved_texts and how it
\* ends.  embedded is embed_query's answer.
retrieve_documents(corpus, embedded, k) ==
    IF embedded.raised
    THEN [outcome |-> "raised", similarities |-> <<>>, retrieved_texts |-> <<>>]
    ELSE LET scored == ScoreUpTo(corpus, embedded.values, Len(corpus))
             ranked == sort_by_similarity(scored.list)
         IN  IF scored.raised
             THEN [outcome |-> "raised", similarities |-> scored.list,
                   retrieved_texts |-> <<>>]
             ELSE [outcome |-> "returned", similarities |-> ranked,
                   retrieved_texts |-> texts_of(slice_to(ranked, k))]

\* ------------------------------------------------------------------ state
VARIABLES
    document_embeddings,        \* the index: a list of [text, embedding]
    outcome,                    \* of the current retrieve_documents call
    query_embedding,            \* its locals
    num_documents_to_retrieve,
    similarities,
    retrieved_texts,
    vec1, vec2, cos_ret,        \* a direct call of calculate_cosine_similarity
    index_pc, embeddings_list,  \* the index-building cell: its position, its local
    rag_pc,                     \* perform_rag: its position,
    query, num_docs,            \* its parameters,
    retrieved_docs,             \* its locals,
    augmented_prompt,
    final_answer,
    rag_return,                 \* what it returned,
    generate_calls,             \* the contents sent to generate_content,
    rag_events,                 \* and what it has done so far, in order
    thread_pc,                  \* retrieve_documents called from several threads:
    thread_query_embedding,     \* each thread's position, and its call's
    thread_k,                   \* parameter and locals;
    thread_i,
    thread_retrieved_texts,
    frame_similarities,         \* the similarities list of each call frame
    agent_pc,                   \* call_agent_and_print: its position,
    events,                     \* the events its runner has yielded,
    final_response_content,     \* its locals,
    stored_output,
    printed,                    \* and what it has printed after the stream
    country,                    \* get_capital_city: its argument
    capital_city_ret            \* and what it returned, as [value |-> the str]

index_vars == <<index_pc, embeddings_list>>

rag_vars == <<rag_pc, query, num_docs, retrieved_docs, augmented_prompt,
              final_answer, rag_return, generate_calls, rag_events>>

thread_vars == <<thread_pc, thread_query_embedding, thread_k, thread_i,
                 thread_retrieved_texts, frame_similarities>>

\* The state of the other programs of the notebooks.
agent_vars == <<agent_pc, events, final_response_content, stored_output, printed>>

tool_vars == <<country, capital_city_ret>>

pipeline_vars == <<rag_vars, thread_vars, agent_vars, tool_vars>>

vars == <<document_embeddings, outcome, query_embedding, num_documents_to_retrieve,
          similarities, retrieved_texts, vec1, vec2, cos_ret, index_vars,
          pipeline_vars>>

call_vars == <<outcome, query_embedding, num_documents_to_retrieve,
               similarities, retrieved_texts>>

cosine_vars == <<vec1, vec2, cos_ret>>

NotCalled == [pending |-> TRUE]

NoCall ==
    /\ outcome = "idle"
    /\ query_embedding = <<>>
    /\ num_documents_to_retrieve = 0
    /\ similarities = <<>>
    /\ retrieved_texts = <<>>

NoCosineCall ==
    /\ vec1 = <<>>
    /\ vec2 = <<>>
    /\ cos_ret = NotCalled

\* The index-building cell has not run.
NoIndexRun ==
    /\ index_pc = "idle"
    /\ embeddings_list = <<>>

None == [none |-> TRUE]

\* perform_rag is not running.
NoRagCall ==
    /\ rag_pc = "idle"
    /\ query = ""
    /\ num_docs = 0
    /\ retrieved_docs = <<>>
    /\ augmented_prompt = <<>>
    /\ final_answer = None
    /\ rag_return = None
    /\ generate_calls = <<>>
    /\ rag_events = <<>>

Threads == {1, 2}

\* No thread is in a retrieve_documents call.
NoThreadCall ==
    /\ thread_pc = [t \in Threads |-> "idle"]
    /\ thread_query_embedding = [t \in Threads |-> <<>>]
    /\ thread_k = [t \in Threads |-> 0]
    /\ thread_i = [t \in Threads |-> 0]
    /\ thread_retrieved_texts = [t \in Threads |-> <<>>]
    /\ frame_similarities = [t \in Threads |-> <<>>]

\* The other programs of the notebooks are not running.
\* call_agent_and_print is not running.
NoAgentCall ==
    /\ agent_pc = "idle"
    /\ events = <<>>
    /\ final_response_content = None
    /\ stored_output = None
    /\ printed = <<>>

\* get_capital_city is not running.
NoToolCall ==
    /\ country = <<>>
    /\ capital_city_ret = NotCalled

NoPipeline == NoRagCall /\ NoThreadCall /\ NoAgentCall /\ NoToolCall

\* After "document_embeddings = []".
Init ==
    /\ document_embeddings = <<>>
    /\ NoCall
    /\ NoCosineCall
    /\ NoIndexRun
    /\ NoPipeline

RECURSIVE ListsUpTo(_, _)
ListsUpTo(S, n) ==
    IF n = 0 THEN {<<>>}
    ELSE ListsUpTo(S, n - 1) \cup
             {Append(l, x) : l \in {y \in ListsUpTo(S, n - 1) : Len(y) = n - 1}, x \in S}

KRange == -(MaxCorpus + 1) .. MaxCorpus + 1

\* The index-building cell, from the embed_content call to the end of the loop.
BuildIndex ==
    /\ document_embeddings = <<>>
    /\ outcome = "idle"
    /\ \E embs \in ListsUpTo(EmbeddingPool, MaxCorpus) :
           /\ embs # <<>>
           /\ embeddings_list' = embs
           /\ document_embeddings' = zip_documents(documents, embs)
    /\ index_pc' = "done"
    /\ UNCHANGED <<call_vars, cosine_vars, pipeline_vars>>

\* Faulty variant of RetrieveDocuments: the corpus itself is sorted by
\* similarity, where the code sorts the call's own list.
RetrieveDocumentsSortingCorpus ==
    /\ outcome = "idle"
    /\ \E embedded \in EmbedAnswers, k \in KRange :
           LET r == retrieve_documents(document_embeddings, embedded, k)
           IN  /\ query_embedding' = embedded.values
               /\ num_documents_to_retrieve' = k
               /\ outcome' = r.outcome
               /\ similarities' = r.similarities
               /\ retrieved_texts' = r.retrieved_texts
               /\ document_embeddings' =
                      IF r.outcome = "returned"
                      THEN [j \in 1 .. Len(r.similarities) |->
                               document_embeddings[
                                   CHOOSE i \in 1 .. Len(document_embeddings) :
                                       document_embeddings[i].text = r.similarities[j][2]]]
                      ELSE document_embeddings
    /\ UNCHANGED <<cosine_vars, index_vars, pipeline_vars>>

\* retrieve_documents(query, num_documents_to_retrieve = k), start to end.
RetrieveDocuments ==
    /\ outcome = "idle"
    /\ \E embedded \in EmbedAnswers, k \in KRange :
           LET r == retrieve_documents(document_embeddings, embedded, k)
           IN  /\ query_embedding' = embedded.values
               /\ num_documents_to_retrieve' = k
               /\ outcome' = r.outcome
               /\ similarities' = r.similarities
               /\ retrieved_texts' = r.retrieved_texts
    /\ UNCHANGED <<document_embeddings, cosine_vars, index_vars, pipeline_vars>>

\* The call is over: its locals are gone and the next call may start.
EndCall ==
    /\ outcome # "idle"
    /\ outcome' = "idle"
    /\ query_embedding' = <<>>
    /\ num_documents_to_retrieve' = 0
    /\ similarities' = <<>>
    /\ retrieved_texts' = <<>>
    /\ UNCHANGED <<document_embeddings, cosine_vars, index_vars, pipeline_vars>>

Next == BuildIndex \/ RetrieveDocuments \/ EndCall

Spec == Init /\ [][Next]_vars

\* ------------------------------- calculate_cosine_similarity called directly
RECURSIVE VectorsOfLen(_)
VectorsOfLen(n) ==
    IF n = 0 THEN {<<>>}
    ELSE {Append(v, x) : v \in VectorsOfLen(n - 1), x \in -MaxVal .. MaxVal}

Vectors == UNION {VectorsOfLen(n) : n \in 1 .. MaxDim}

InitCosine ==
    /\ document_embeddings = <<>>
    /\ NoCall
    /\ vec1 \in Vectors
    /\ vec2 \in Vectors
    /\ cos_ret = NotCalled
    /\ NoIndexRun
    /\ NoPipeline

CallCosine ==
    /\ cos_ret = NotCalled
    /\ cos_ret' = calculate_cosine_similarity(vec1, vec2)
    /\ UNCHANGED <<vec1, vec2, document_embeddings, call_vars, index_vars, pipeline_vars>>

NextCosine == CallCosine

SpecCosine == InitCosine /\ [][NextCosine]_vars

\* ---------------------------------------------------------------- perform_rag
\* A text is a list of pieces; the f-string's fixed parts are pieces of it.
PromptLead ==
    "Use the following pieces of context to answer the question at the end. If you don't know the answer from the context, just say that you don't know, don't try to make up an answer.\n\n"

RECURSIVE JoinUpTo(_, _, _)
JoinUpTo(sep, items, i) ==
    IF i = 0 THEN <<>>
    ELSE IF i = 1 THEN <<items[1]>>
    ELSE JoinUpTo(sep, items, i - 1) \o <<sep, items[i]>>

\* Faulty variant of str_join: the items are joined last to first.
str_join_reversed(sep, items) ==
    JoinUpTo(sep, [i \in 1 .. Len(items) |-> items[Len(items) + 1 - i]], Len(items))

\* sep.join(items)
str_join(sep, items) == JoinUpTo(sep, items, Len(items))

\* The augmented prompt for a query and the retrieved documents.
augment(q, docs) ==
    <<PromptLead, "Context:\n">> \o str_join("\n", docs)
        \o <<"\n\n", "Question: ", q, "\n\nAnswer:">>

RagQueries == {"Which planet is known for its rings?", "What is the red planet?"}

NumDocsRange == 0 .. MaxCorpus + 1

\* generate_content's ways to end: it raises, or it returns a response whose
\* text is a string (a record with the field str) or None.
GenerateAnswers ==
    {[raised |-> TRUE, text |-> None],
     [raised |-> FALSE, text |-> None],
     [raised |-> FALSE, text |-> [str |-> "Saturn is known for its rings."]]}

\* The variables perform_rag leaves alone.
outside_rag == <<cosine_vars, index_vars, thread_vars, agent_vars, tool_vars>>

\* The index is built before the function is called.
RagBuildIndex ==
    /\ rag_pc = "idle"
    /\ BuildIndex

\* perform_rag(query, num_docs) is called and makes its
\* retrieve_documents(query, num_documents_to_retrieve=num_docs) call, which
\* returns the texts or raises.
RagRetrieve ==
    /\ rag_pc = "idle"
    /\ outcome = "idle"
    /\ \E q \in RagQueries, n \in NumDocsRange, embedded \in EmbedAnswers :
           LET r == retrieve_documents(document_embeddings, embedded, n)
           IN  /\ query' = q
               /\ num_docs' = n
               /\ query_embedding' = embedded.values
               /\ num_documents_to_retrieve' = n
               /\ outcome' = r.outcome
               /\ similarities' = r.similarities
               /\ retrieved_texts' = r.retrieved_texts
               /\ IF r.outcome = "returned"
                  THEN /\ retrieved_docs' = r.retrieved_texts
                       /\ rag_pc' = "retrieved"
                       /\ rag_events' = <<"retrieve_documents returned">>
                  ELSE /\ retrieved_docs' = retrieved_docs
                       /\ rag_pc' = "raised"
                       /\ rag_events' = <<"retrieve_documents raised">>
    /\ UNCHANGED <<augmented_prompt, final_answer, rag_return, generate_calls>>
    /\ UNCHANGED <<document_embeddings, outside_rag>>

\* context = "\n".join(retrieved_docs); augmented_prompt = f"..."
RagAugment ==
    /\ rag_pc = "retrieved"
    /\ augmented_prompt' = augment(query, retrieved_docs)
    /\ rag_pc' = "augmented"
    /\ rag_events' = Append(rag_events, "augmented")
    /\ UNCHANGED <<query, num_docs, retrieved_docs, final_answer, rag_return,
                   generate_calls>>
    /\ UNCHANGED <<document_embeddings, call_vars, outside_rag>>

\* response = client.models.generate_content(contents=augmented_prompt);
\* final_answer = response.text
RagGenerate ==
    /\ rag_pc = "augmented"
    /\ generate_calls' = Append(generate_calls, augmented_prompt)
    /\ \E answer \in GenerateAnswers :
           IF answer.raised
           THEN /\ rag_pc' = "raised"
                /\ final_answer' = final_answer
                /\ rag_events' = Append(rag_events, "generate_content raised")
           ELSE /\ rag_pc' = "generated"
                /\ final_answer' = answer.text
                /\ rag_events' = Append(rag_events, "generate_content returned")
    /\ UNCHANGED <<query, num_docs, retrieved_docs, augmented_prompt, rag_return>>
    /\ UNCHANGED <<document_embeddings, call_vars, outside_rag>>

\* print(textwrap.fill(final_answer, width=80)), which raises for None;
\* return final_answer
RagReturn ==
    /\ rag_pc = "generated"
    /\ IF final_answer = None
       THEN /\ rag_pc' = "raised"
            /\ rag_return' = rag_return
            /\ rag_events' = Append(rag_events, "textwrap.fill raised")
       ELSE /\ rag_pc' = "returned"
            /\ rag_return' = final_answer
            /\ rag_events' = Append(rag_events, "returned")
    /\ UNCHANGED <<query, num_docs, retrieved_docs, augmented_prompt, final_answer,
                   generate_calls>>
    /\ UNCHANGED <<document_embeddings, call_vars, outside_rag>>

\* The call is over, by a return or by an exception.
RagEnd ==
    /\ rag_pc \in {"returned", "raised"}
    /\ rag_pc' = "idle"
    /\ query' = ""
    /\ num_docs' = 0
    /\ retrieved_docs' = <<>>
    /\ augmented_prompt' = <<>>
    /\ final_answer' = None
    /\ rag_return' = None
    /\ generate_calls' = <<>>
    /\ rag_events' = <<>>
    /\ outcome' = "idle"
    /\ query_embedding' = <<>>
    /\ num_documents_to_retrieve' = 0
    /\ similarities' = <<>>
    /\ retrieved_texts' = <<>>
    /\ UNCHANGED <<document_embeddings, outside_rag>>

NextRag ==
    \/ RagBuildIndex
    \/ RagRetrieve
    \/ RagAugment
    \/ RagGenerate
    \/ RagReturn
    \/ RagEnd

SpecRag == Init /\ [][NextRag]_vars

\* ------------------------- retrieve_documents called from several threads
\* The corpora the threads read: one of distinct directions, one with equal
\* entries, one with an entry of another dimensionality.
ThreadCorpusEmbeddings ==
    {<<<<1, 0>>, <<0, 1>>, <<1, 1>>>>,
     <<<<1, 1>>, <<1, 0>>, <<1, 1>>>>,
     <<<<0, 1>>, <<1>>, <<1, 0>>>>}

ThreadKs == {-1, 1, 2, 3}

\* The index was built; no call has been made.
InitThreads ==
    /\ \E embs \in ThreadCorpusEmbeddings :
           /\ embeddings_list = embs
           /\ document_embeddings = zip_documents(documents, embs)
    /\ index_pc = "done"
    /\ NoCall
    /\ NoCosineCall
    /\ NoPipeline

\* The variables the threads leave alone.
outside_threads ==
    <<document_embeddings, call_vars, cosine_vars, index_vars, rag_vars, agent_vars,
      tool_vars>>

\* Faulty variant of frame_of: similarities is one list of the module, shared
\* by all calls.
frame_of_module(t) == 1

\* The frame holding the locals of thread t's call: its own.
frame_of(t) == t

\* Thread t calls retrieve_documents(query, k); query_embedding =
\* embed_query(query) returns or raises.
ThreadCall(t) ==
    /\ thread_pc[t] = "idle"
    /\ \E k \in ThreadKs, embedded \in EmbedAnswers :
           /\ thread_k' = [thread_k EXCEPT ![t] = k]
           /\ thread_query_embedding' =
                  [thread_query_embedding EXCEPT ![t] = embedded.values]
           /\ thread_pc' =
                  [thread_pc EXCEPT ![t] = IF embedded.raised THEN "raised" ELSE "init"]
    /\ UNCHANGED <<thread_i, thread_retrieved_texts, frame_similarities>>
    /\ UNCHANGED outside_threads

\* similarities = []; the loop starts.
ThreadInit(t) ==
    /\ thread_pc[t] = "init"
    /\ frame_similarities' = [frame_similarities EXCEPT ![frame_of(t)] = <<>>]
    /\ thread_i' = [thread_i EXCEPT ![t] = 0]
    /\ thread_pc' = [thread_pc EXCEPT ![t] = "loop"]
    /\ UNCHANGED <<thread_query_embedding, thread_k, thread_retrieved_texts>>
    /\ UNCHANGED outside_threads

\* One iteration of the loop: the similarity to the next entry of the
\* corpus is computed, which may raise, and appended with the entry's text.
ThreadScore(t) ==
    /\ thread_pc[t] = "loop"
    /\ thread_i[t] < Len(document_embeddings)
    /\ LET doc_data == document_embeddings[thread_i[t] + 1]
           similarity == similarity_of[<<thread_query_embedding[t], doc_data.embedding>>]
       IN  IF IsRaise(similarity)
           THEN /\ thread_pc' = [thread_pc EXCEPT ![t] = "raised"]
                /\ UNCHANGED <<thread_i, frame_similarities>>
           ELSE /\ frame_similarities' =
                       [frame_similarities EXCEPT
                           ![frame_of(t)] = Append(@, <<similarity, doc_data.text>>)]
                /\ thread_i' = [thread_i EXCEPT ![t] = @ + 1]
                /\ UNCHANGED thread_pc
    /\ UNCHANGED <<thread_query_embedding, thread_k, thread_retrieved_texts>>
    /\ UNCHANGED outside_threads

\* similarities.sort(key=lambda x: x[0], reverse=True), after the loop.
ThreadSort(t) ==
    /\ thread_pc[t] = "loop"
    /\ thread_i[t] = Len(document_embeddings)
    /\ frame_similarities' =
           [frame_similarities EXCEPT ![frame_of(t)] = sort_by_similarity(@)]
    /\ thread_pc' = [thread_pc EXCEPT ![t] = "slice"]
    /\ UNCHANGED <<thread_query_embedding, thread_k, thread_i, thread_retrieved_texts>>
    /\ UNCHANGED outside_threads

\* retrieved_texts = [text for sim, text in similarities[:k]]; return it.
ThreadSlice(t) ==
    /\ thread_pc[t] = "slice"
    /\ thread_retrieved_texts' =
           [thread_retrieved_texts EXCEPT
               ![t] = texts_of(slice_to(frame_similarities[frame_of(t)], thread_k[t]))]
    /\ thread_pc' = [thread_pc EXCEPT ![t] = "returned"]
    /\ UNCHANGED <<thread_query_embedding, thread_k, thread_i, frame_similarities>>
    /\ UNCHANGED outside_threads

\* The caller has the result or the exception: the frame is released and
\* the thread may call again.
ThreadEnd(t) ==
    /\ thread_pc[t] \in {"returned", "raised"}
    /\ thread_pc' = [thread_pc EXCEPT ![t] = "idle"]
    /\ thread_query_embedding' = [thread_query_embedding EXCEPT ![t] = <<>>]
    /\ thread_k' = [thread_k EXCEPT ![t] = 0]
    /\ thread_i' = [thread_i EXCEPT ![t] = 0]
    /\ thread_retrieved_texts' = [thread_retrieved_texts EXCEPT ![t] = <<>>]
    /\ frame_similarities' = [frame_similarities EXCEPT ![frame_of(t)] = <<>>]
    /\ UNCHANGED outside_threads

NextThreads ==
    \E t \in Threads :
        \/ ThreadCall(t)
        \/ ThreadInit(t)
        \/ ThreadScore(t)
        \/ ThreadSort(t)
        \/ ThreadSlice(t)
        \/ ThreadEnd(t)

SpecThreads == InitThreads /\ [][NextThreads]_vars

\* ------------------------------------------------------ call_agent_and_print
\* A Python str is a record with the field str; None is None.
Str(s) == [str |-> s]

NoFinalResponse == Str("No final response received.")

\* A part with text, and one without (a function call, say).
TextPart(s) == [text |-> Str(s)]

NoTextPart == [text |-> None]

\* A Python list is a record with the field list.
List(s) == [list |-> s]

\* The events a runner may yield: is_final_response() or not, with content
\* None or a Content whose parts are None, empty, or a list of parts.
EventKinds ==
    {[final |-> FALSE, content |-> [parts |-> List(<<TextPart("Looking up the capital.")>>)]],
     [final |-> TRUE, content |-> None],
     [final |-> TRUE, content |-> [parts |-> None]],
     [final |-> TRUE, content |-> [parts |-> List(<<>>)]],
     [final |-> TRUE,
      content |-> [parts |-> List(<<TextPart("The capital of France is Paris.")>>)]],
     [final |-> TRUE,
      content |-> [parts |-> List(<<TextPart("The capital"), TextPart(" is Rome.")>>)]],
     [final |-> TRUE, content |-> [parts |-> List(<<NoTextPart>>)]]}

\* bool(x) for content and parts: None and the empty list are falsy.
Truthy(x) ==
    /\ "none" \notin DOMAIN x
    /\ ("list" \in DOMAIN x) => (x.list # <<>>)

\* Faulty variant of is_reported: is_final_response() is not asked.
is_reported_unless_empty(event) ==
    Truthy(event.content) /\ Truthy(event.content.parts)

\* event.is_final_response() and event.content and event.content.parts
is_reported(event) ==
    event.final /\ Truthy(event.content) /\ Truthy(event.content.parts)

\* What current_session.state.get(output_key) may be: None for a missing
\* key, a str that is or is not JSON, or another object.
StoredOutputs ==
    {None,
     Str("The capital of France is Paris."),
     Str(""),
     Str("{\"capital\":\"Paris\"}"),
     Str("42"),
     [dict |-> <<<<"capital", "Paris">>>>]}

TypeError == [exc |-> "TypeError"]

JSONDecodeError == [exc |-> "JSONDecodeError"]

\* The documents json.loads accepts among the strings of StoredOutputs, with
\* their values.
JsonDocuments ==
    {[text |-> "{\"capital\":\"Paris\"}", value |-> [object |-> <<<<"capital", "Paris">>>>]],
     [text |-> "42", value |-> [number |-> 42]]}

\* json.loads(s): TypeError for what is not a str, JSONDecodeError for a str
\* that is not a JSON document.
json_loads(s) ==
    IF "str" \notin DOMAIN s THEN TypeError
    ELSE IF \E d \in JsonDocuments : d.text = s.str
         THEN (CHOOSE d \in JsonDocuments : d.text = s.str).value
         ELSE JSONDecodeError

RECURSIVE DumpMembersUpTo(_, _)
DumpMembersUpTo(members, i) ==
    IF i = 0 THEN ""
    ELSE DumpMembersUpTo(members, i - 1) \o (IF i > 1 THEN ",\n" ELSE "")
             \o "  \"" \o members[i][1] \o "\": \"" \o members[i][2] \o "\""

\* json.dumps(value, indent=2)
json_dumps_indent_2(value) ==
    IF "number" \in DOMAIN value THEN Str(ToString(value.number))
    ELSE IF value.object = <<>> THEN Str("{}")
    ELSE Str("{\n" \o DumpMembersUpTo(value.object, Len(value.object)) \o "\n}")

\* The variables call_agent_and_print leaves alone.
outside_agent ==
    <<document_embeddings, call_vars, cosine_vars, index_vars, rag_vars, thread_vars,
      tool_vars>>

\* The call starts: final_response_content = "No final response received."
AgentCall ==
    /\ agent_pc = "idle"
    /\ final_response_content' = NoFinalResponse
    /\ agent_pc' = "streaming"
    /\ UNCHANGED <<events, stored_output, printed>>
    /\ UNCHANGED outside_agent

\* The runner yields an event and the loop body handles it.
AgentEvent ==
    /\ agent_pc = "streaming"
    /\ Len(events) < MaxEvents
    /\ \E event \in EventKinds :
           /\ events' = Append(events, event)
           /\ final_response_content' =
                  IF is_reported(event) THEN event.content.parts.list[1].text
                  ELSE final_response_content
    /\ UNCHANGED <<agent_pc, stored_output, printed>>
    /\ UNCHANGED outside_agent

\* The runner raises: the exception leaves the function.
AgentStreamRaises ==
    /\ agent_pc = "streaming"
    /\ agent_pc' = "raised"
    /\ UNCHANGED <<events, final_response_content, stored_output, printed>>
    /\ UNCHANGED outside_agent

\* The stream ends: print(f"<<< Agent ... Response: {final_response_content}")
AgentStreamEnds ==
    /\ agent_pc = "streaming"
    /\ printed' = Append(printed, final_response_content)
    /\ agent_pc' = "reported"
    /\ UNCHANGED <<events, final_response_content, stored_output>>
    /\ UNCHANGED outside_agent

\* stored_output = current_session.state.get(output_key); it is printed
\* pretty when json.loads takes it, as it is when json.loads raises
\* JSONDecodeError or TypeError.
AgentPrintState ==
    /\ agent_pc = "reported"
    /\ \E stored \in StoredOutputs :
           /\ stored_output' = stored
           /\ LET parsed_output == json_loads(stored)
              IN  printed' =
                      Append(printed, IF parsed_output \in {JSONDecodeError, TypeError}
                                      THEN stored
                                      ELSE json_dumps_indent_2(parsed_output))
    /\ agent_pc' = "done"
    /\ UNCHANGED <<events, final_response_content>>
    /\ UNCHANGED outside_agent

\* The call is over, by its end or by an exception.
AgentEnd ==
    /\ agent_pc \in {"done", "raised"}
    /\ agent_pc' = "idle"
    /\ events' = <<>>
    /\ final_response_content' = None
    /\ stored_output' = None
    /\ printed' = <<>>
    /\ UNCHANGED outside_agent

NextAgent ==
    \/ AgentCall
    \/ AgentEvent
    \/ AgentStreamRaises
    \/ AgentStreamEnds
    \/ AgentPrintState
    \/ AgentEnd

SpecAgent == Init /\ [][NextAgent]_vars

\* ---------------------------------------------------------- get_capital_city
\* Here a str is the list of its characters, and a str built from parts is
\* the list of the parts' items.
UpperCaseLetters ==
    <<"A", "B", "C", "D", "E", "F", "G", "H", "I", "J", "K", "L", "M", "N", "O", "P", "Q", "R", "S", "T", "U", "V", "W", "X", "Y", "Z">>

LowerCaseLetters ==
    <<"a", "b", "c", "d", "e", "f", "g", "h", "i", "j", "k", "l", "m", "n", "o", "p", "q", "r", "s", "t", "u", "v", "w", "x", "y", "z">>

\* c.lower() for one character: a capital letter becomes its small letter,
\* every other character stays.
lower_char(c) ==
    IF \E i \in 1 .. Len(UpperCaseLetters) : UpperCaseLetters[i] = c
    THEN LowerCaseLetters[CHOOSE i \in 1 .. Len(UpperCaseLetters) : UpperCaseLetters[i] = c]
    ELSE c

\* Faulty variant of str_lower: the string is left as it is.
str_as_typed(s) == s

\* s.lower()
str_lower(s) == [i \in 1 .. Len(s) |-> lower_char(s[i])]

\* The dictionary of the function, as its set of items.
country_capitals ==
    {[key |-> <<"u", "n", "i", "t", "e", "d", " ", "s", "t", "a", "t", "e", "s">>,
      value |-> <<"Washington, D.C.">>],
     [key |-> <<"c", "a", "n", "a", "d", "a">>, value |-> <<"Ottawa">>],
     [key |-> <<"f", "r", "a", "n", "c", "e">>, value |-> <<"Paris">>],
     [key |-> <<"j", "a", "p", "a", "n">>, value |-> <<"Tokyo">>]}

\* d.get(k, default)
dict_get(d, k, default) ==
    IF \E item \in d : item.key = k
    THEN (CHOOSE item \in d : item.key = k).value
    ELSE default

\* get_capital_city(country)
get_capital_city(c) ==
    dict_get(country_capitals, str_lower(c),
             <<"Sorry, I couldn't find the capital for ">> \o c \o <<".">>)

\* Every way of writing a word of small letters with some letters capital.
RECURSIVE SpellingsUpTo(_, _)
SpellingsUpTo(word, i) ==
    IF i = 0 THEN {<<>>}
    ELSE {Append(s, c) :
             s \in SpellingsUpTo(word, i - 1),
             c \in {word[i]} \cup
                      {UpperCaseLetters[j] : j \in {j \in 1 .. Len(LowerCaseLetters) :
                                                      LowerCaseLetters[j] = word[i]}}}

\* The arguments tried: every spelling of three of the keys, some of the
\* fourth, and strings that are no key: the empty one, other words, a key
\* with a space after it, a capital city, a key cut short.
Countries ==
    SpellingsUpTo(<<"j", "a", "p", "a", "n">>, 5) \cup SpellingsUpTo(<<"c", "a", "n", "a", "d", "a">>, 6)
        \cup SpellingsUpTo(<<"f", "r", "a", "n", "c", "e">>, 6)
        \cup {<<"u", "n", "i", "t", "e", "d", " ", "s", "t", "a", "t", "e", "s">>,
               <<"U", "n", "i", "t", "e", "d", " ", "S", "t", "a", "t", "e", "s">>,
               <<"U", "N", "I", "T", "E", "D", " ", "S", "T", "A", "T", "E", "S">>,
               <<>>,
               <<"G", "e", "r", "m", "a", "n", "y">>,
               <<"g", "e", "r", "m", "a", "n", "y">>,
               <<"j", "a", "p", "a", "n", " ">>,
               <<"T", "o", "k", "y", "o">>,
               <<"f", "r", "a", "n", "c">>,
               <<"J", "a", "p", "o", "n">>}

\* The variables get_capital_city leaves alone.
outside_tool ==
    <<document_embeddings, call_vars, cosine_vars, index_vars, rag_vars, thread_vars,
      agent_vars>>

\* get_capital_city(country) is called and returns.
CallCapitalCity ==
    /\ capital_city_ret = NotCalled
    /\ \E c \in Countries :
           /\ country' = c
           /\ capital_city_ret' = [value |-> get_capital_city(c)]
    /\ UNCHANGED outside_tool

\* The caller has the answer; the next call may start.
EndCapitalCity ==
    /\ capital_city_ret # NotCalled
    /\ country' = <<>>
    /\ capital_city_ret' = NotCalled
    /\ UNCHANGED outside_tool

NextCapital == CallCapitalCity \/ EndCapitalCity

SpecCapital == Init /\ [][NextCapital]_vars

\* ------------------------------------ the index-building cell, step by step
\* What embed_content may return for an item of contents.
IndexPool == {<<1, 0>>, <<0, 1>>}

\* What embed_content may return for documents: a list of embeddings, which
\* the code does not compare in length with documents.
EmbedContentAnswers == ListsUpTo(IndexPool, Len(documents) + 1)

\* zip's iterator has an (i + 1)-th pair when neither argument is exhausted.
zip_has_next(docs, embs, i) == i < Len(docs) /\ i < Len(embs)

\* Faulty variant of zip_pair: the embeddings are taken from the end.
zip_pair_reversed(docs, embs, i) == <<docs[i], embs[Len(embs) + 1 - i]>>

\* The i-th pair of zip(docs, embs).
zip_pair(docs, embs, i) == <<docs[i], embs[i]>>

\* "document_embeddings = []": the cell starts, for the first time or again.
StartIndexCell ==
    /\ index_pc \in {"idle", "done", "raised"}
    /\ document_embeddings' = <<>>
    /\ index_pc' = "embedding"
    /\ UNCHANGED <<embeddings_list, call_vars, cosine_vars, pipeline_vars>>

\* client.models.embed_content returns; embeddings_list = response.embeddings.
EmbedContentReturns ==
    /\ index_pc = "embedding"
    /\ embeddings_list' \in EmbedContentAnswers
    /\ index_pc' = "looping"
    /\ UNCHANGED <<document_embeddings, call_vars, cosine_vars, pipeline_vars>>

\* client.models.embed_content raises: the cell halts there.
EmbedContentRaises ==
    /\ index_pc = "embedding"
    /\ index_pc' = "raised"
    /\ UNCHANGED <<embeddings_list, document_embeddings, call_vars, cosine_vars, pipeline_vars>>

\* One iteration of "for doc, embedding in zip(...)": an entry is appended.
AppendEntry ==
    /\ index_pc = "looping"
    /\ zip_has_next(documents, embeddings_list, Len(document_embeddings))
    /\ LET pair == zip_pair(documents, embeddings_list, Len(document_embeddings) + 1)
       IN  document_embeddings' =
               Append(document_embeddings, [text |-> pair[1], embedding |-> pair[2]])
    /\ UNCHANGED <<index_vars, call_vars, cosine_vars, pipeline_vars>>

\* zip is exhausted: the loop and the cell end.
EndIndexCell ==
    /\ index_pc = "looping"
    /\ ~zip_has_next(documents, embeddings_list, Len(document_embeddings))
    /\ index_pc' = "done"
    /\ UNCHANGED <<embeddings_list, document_embeddings, call_vars, cosine_vars, pipeline_vars>>

NextIndex ==
    \/ StartIndexCell
    \/ EmbedContentReturns
    \/ EmbedContentRaises
    \/ AppendEntry
    \/ EndIndexCell

SpecIndex == Init /\ [][NextIndex]_vars

\* ------------------------------------------------- vocabulary of the claims
Called == outcome # "idle"

Returned == outcome = "returned"

\* embed_query returned an embedding to the current call.
QueryEmbedded == Called /\ query_embedding # <<>>

CorpusSize == Len(document_embeddings)

\* Every corpus vector has the query's dimensionality.
SameDimensionality ==
    \A i \in 1 .. CorpusSize :
        Len(document_embeddings[i].embedding) = Len(query_embedding)

\* The similarity of corpus entry i to the current query.
ScoreOfDoc(i) == similarity_of[<<query_embedding, document_embeddings[i].embedding>>]

IsCorpusText(t) == \E i \in 1 .. CorpusSize : document_embeddings[i].text = t

\* The corpus position of a text (the documents are pairwise different).
DocIndex(t) == CHOOSE i \in 1 .. CorpusSize : document_embeddings[i].text = t

\* The corpus position of the j-th retrieved text.
Rank(j) == DocIndex(retrieved_texts[j])

RetrievedFromCorpus ==
    /\ \A j \in 1 .. Len(retrieved_texts) : IsCorpusText(retrieved_texts[j])
    /\ \A i, j \in 1 .. Len(retrieved_texts) : i # j => Rank(i) # Rank(j)

DescendingBySimilarity ==
    \A i, j \in 1 .. Len(retrieved_texts) :
        i < j => FLeq(ScoreOfDoc(Rank(j)), ScoreOfDoc(Rank(i)))

\* No corpus entry left out scores strictly higher than one in the result.
NothingBetterLeftOut ==
    \A i \in 1 .. CorpusSize :
        (\A j \in 1 .. Len(retrieved_texts) : Rank(j) # i) =>
            \A j \in 1 .. Len(retrieved_texts) :
                FLeq(ScoreOfDoc(i), ScoreOfDoc(Rank(j)))

CosineCalled == cos_ret # NotCalled

CosineReturned == CosineCalled /\ ~IsRaise(cos_ret)

\* |x - 1| <= t * 2^(-Precision) for a float x, compared exactly.
WithinOfOne(x, t) ==
    LET s == Max(Precision, -x.e)
    IN  Abs(x.m * 2^(x.e + s) - 2^s) <= t * 2^(s - Precision)

\* The dot product of two integer vectors of equal length, in the integers.
RECURSIVE ExactDotUpTo(_, _, _)
ExactDotUpTo(a, b, i) ==
    IF i = 0 THEN 0 ELSE ExactDotUpTo(a, b, i - 1) + a[i] * b[i]

Orthogonal(a, b) == Len(a) = Len(b) /\ ExactDotUpTo(a, b, Len(a)) = 0

\* |x - y| <= t * 2^(-Precision) for floats x and y, compared exactly.
WithinOf(x, y, t) ==
    LET s == Max(Precision, Max(-x.e, -y.e))
    IN  Abs(x.m * 2^(x.e + s) - y.m * 2^(y.e + s)) <= t * 2^(s - Precision)

\* The current call made again with the query embedding multiplied by c.
RetrievedScaled(c) ==
    retrieve_documents(document_embeddings,
                       [raised |-> FALSE, values |-> Scaled(c, query_embedding)],
                       num_documents_to_retrieve)

\* The current call made again with another k.
RetrievedWith(k) ==
    retrieve_documents(document_embeddings,
                       [raised |-> FALSE, values |-> query_embedding], k)

IsPrefix(s, t) == Len(s) <= Len(t) /\ s = SubSeq(t, 1, Len(s))

\* What thread t's call returns when it runs alone.
AloneResult(t) ==
    retrieve_documents(document_embeddings,
                       [raised |-> thread_query_embedding[t] = <<>>,
                        values |-> thread_query_embedding[t]],
                       thread_k[t])

\* The similarity of a corpus text to the query of thread t's call.
ThreadScoreOf(t, text) ==
    similarity_of[<<thread_query_embedding[t], document_embeddings[DocIndex(text)].embedding>>]

\* The positions of the yielded events that are final responses whose
\* content has at least one part.
FinalResponsesWithParts ==
    {i \in 1 .. Len(events) :
        /\ events[i].final
        /\ events[i].content # None
        /\ events[i].content.parts # None
        /\ Len(events[i].content.parts.list) > 0}

\* The text of the first part of the i-th yielded event.
TextOfEvent(i) == events[i].content.parts.list[1].text

Last(S) == CHOOSE i \in S : \A j \in S : j <= i

\* The stored output is a str that json.loads rejects.
NotJson(x) == "str" \in DOMAIN x /\ \A d \in JsonDocuments : d.text # x.str

CapitalCityCalled == capital_city_ret # NotCalled

\* s is the word of small letters key with some of its letters capital.
IsSpellingOf(s, key) ==
    /\ Len(s) = Len(key)
    /\ \A i \in 1 .. Len(s) :
           \/ s[i] = key[i]
           \/ \E j \in 1 .. Len(LowerCaseLetters) :
                  LowerCaseLetters[j] = key[i] /\ UpperCaseLetters[j] = s[i]

PowersOfTwo == {c \in 1 .. MaxScale : \E j \in 0 .. MaxScale : c = 2^j}

\* --------------------------------------------------------------- the claims
\* C1: over a corpus of n entries of the query's dimensionality, a call with
\* 1 <= k <= n returns exactly k texts, the texts of k different corpus
\* entries, in descending order of cosine similarity to the query, and no
\* entry left out scores strictly higher than an entry returned.
C1_TopK ==
    (QueryEmbedded /\ SameDimensionality
        /\ 1 <= num_documents_to_retrieve
        /\ num_documents_to_retrieve <= CorpusSize) =>
        /\ Returned
        /\ Len(retrieved_texts) = num_documents_to_retrieve
        /\ RetrievedFromCorpus
        /\ DescendingBySimilarity
        /\ NothingBetterLeftOut

\* The spec's example shape: a proper top 2 of 3 with a higher score left in
\* and a lower score left out.
C1_Witness ==
    /\ Returned
    /\ CorpusSize = 3
    /\ num_documents_to_retrieve = 2
    /\ Len(retrieved_texts) = 2
    /\ FLess(ScoreOfDoc(Rank(2)), ScoreOfDoc(Rank(1)))
    /\ \E i \in 1 .. CorpusSize : FLess(ScoreOfDoc(i), ScoreOfDoc(Rank(2)))
    /\ Rank(1) = 3

\* C2: with k >= n the call returns all n documents: every corpus entry
\* appears exactly once and nothing else appears, by descending similarity.
C2_AllDocuments ==
    (QueryEmbedded /\ SameDimensionality
        /\ num_documents_to_retrieve >= CorpusSize) =>
        /\ Returned
        /\ Len(retrieved_texts) = CorpusSize
        /\ RetrievedFromCorpus
        /\ \A i \in 1 .. CorpusSize :
               Cardinality({j \in 1 .. Len(retrieved_texts) :
                                retrieved_texts[j] = document_embeddings[i].text}) = 1
        /\ DescendingBySimilarity

C2_Witness ==
    /\ Returned
    /\ CorpusSize = 3
    /\ num_documents_to_retrieve > CorpusSize
    /\ Len(retrieved_texts) = 3
    /\ Rank(1) = 2
    /\ FLess(ScoreOfDoc(Rank(3)), ScoreOfDoc(Rank(1)))

\* C3: two returned documents with identical similarity to the query stand
\* in the result in their corpus order.
C3_Stable ==
    Returned =>
        /\ RetrievedFromCorpus
        /\ \A i, j \in 1 .. Len(retrieved_texts) :
               (i < j /\ ScoreOfDoc(Rank(i)) = ScoreOfDoc(Rank(j))) => Rank(i) < Rank(j)

\* A tie between two entries with different vectors, ranked below a later
\* corpus entry.
C3_Witness ==
    /\ Returned
    /\ Len(retrieved_texts) = 3
    /\ ScoreOfDoc(Rank(2)) = ScoreOfDoc(Rank(3))
    /\ document_embeddings[Rank(2)].embedding # document_embeddings[Rank(3)].embedding
    /\ Rank(1) = 3
    /\ Rank(2) = 1

\* C4: a call with k <= 0 fails instead of returning a list of texts.
C4_NonPositiveKRejected ==
    (Called /\ num_documents_to_retrieve <= 0) => outcome = "raised"

C6_InUnitInterval ==
    CosineReturned => (FLeq(FloatOf(-1), cos_ret) /\ FLeq(cos_ret, One))

\* C7: when an argument has zero norm (the lengths being equal) the call
\* returns 0.0.
C7_ZeroNorm ==
    (CosineCalled /\ Len(vec1) = Len(vec2)
        /\ (np_linalg_norm(vec1) = Zero \/ np_linalg_norm(vec2) = Zero)) =>
        cos_ret = Zero

C7_Witness ==
    /\ CosineCalled
    /\ vec1 = <<0, 0>>
    /\ vec2 = <<1, 2>>
    /\ cos_ret = Zero

\* C8: when a corpus vector differs in length from the query vector, the
\* call raises at the first such entry: it scores no mismatched pair and
\* returns no ranking.
C8_MismatchRaises ==
    (QueryEmbedded /\ ~SameDimensionality) =>
        /\ outcome = "raised"
        /\ retrieved_texts = <<>>
        /\ Len(similarities) < CorpusSize
        /\ Len(document_embeddings[Len(similarities) + 1].embedding)
               # Len(query_embedding)
        /\ \A i \in 1 .. Len(similarities) :
               Len(document_embeddings[i].embedding) = Len(query_embedding)

\* Two entries scored, the third of another length.
C8_Witness ==
    /\ outcome = "raised"
    /\ CorpusSize = 3
    /\ Len(query_embedding) = 2
    /\ Len(similarities) = 2
    /\ Len(document_embeddings[3].embedding) = 1

\* C9, as claimed: the similarity of v to itself is exactly 1.0, and 0.0
\* for the zero vector.
C9_SelfSimilarityExact ==
    (CosineCalled /\ vec1 = vec2) =>
        cos_ret = (IF np_linalg_norm(vec1) = Zero THEN Zero ELSE One)

\* C9, amended: the similarity of v to itself is within 4 * 2^(-Precision)
\* (two machine epsilons) of 1.0, and exactly 0.0 for the zero vector.
C9_SelfSimilarityNearOne ==
    (CosineCalled /\ vec1 = vec2) =>
        IF np_linalg_norm(vec1) = Zero THEN cos_ret = Zero
        ELSE ~IsRaise(cos_ret) /\ WithinOfOne(cos_ret, 4)

\* A vector whose self-similarity is not 1.0.
C9_Witness ==
    /\ CosineCalled
    /\ vec1 = vec2
    /\ np_linalg_norm(vec1) # Zero
    /\ cos_ret # One
    /\ WithinOfOne(cos_ret, 4)

\* C10: the call's result for (a, b) is its result for (b, a).
C10_Symmetric ==
    CosineCalled => cos_ret = calculate_cosine_similarity(vec2, vec1)

C10_Witness ==
    /\ CosineReturned
    /\ vec1 = <<1, 2>>
    /\ vec2 = <<2, 1>>
    /\ cos_ret # Zero
\* C11: for orthogonal vectors (their dot product is zero), such as (1, 0)
\* and (0, 1), the call returns 0.0.
C11_Orthogonal ==
    (CosineCalled /\ Orthogonal(vec1, vec2)) => cos_ret = Zero

\* The spec's example.
C11_Witness ==
    /\ CosineCalled
    /\ vec1 = <<1, 0>>
    /\ vec2 = <<0, 1>>
    /\ cos_ret = Zero
\* C12, as claimed: multiplying the query embedding by any positive scalar
\* leaves every similarity, and so the ranking returned, unchanged.
C12_ScaleInvariantExact ==
    QueryEmbedded =>
        \A c \in 1 .. MaxScale :
            /\ \A i \in 1 .. CorpusSize :
                   similarity_of[<<Scaled(c, query_embedding),
                                   document_embeddings[i].embedding>>] = ScoreOfDoc(i)
            /\ RetrievedScaled(c).retrieved_texts = retrieved_texts

\* C12, amended: multiplying the query embedding by a power of two leaves
\* every similarity and the whole outcome of the call unchanged; multiplying
\* it by any other positive scalar moves a similarity by no more than
\* (4n + 10) * 2^(-Precision) for n-dimensional vectors, and the call
\* raises with the scaled query exactly when it raises without.
C12_ScaleInvariant ==
    QueryEmbedded =>
        /\ \A c \in PowersOfTwo :
               /\ \A i \in 1 .. CorpusSize :
                      similarity_of[<<Scaled(c, query_embedding),
                                      document_embeddings[i].embedding>>] = ScoreOfDoc(i)
               /\ RetrievedScaled(c).outcome = outcome
               /\ RetrievedScaled(c).similarities = similarities
               /\ RetrievedScaled(c).retrieved_texts = retrieved_texts
        /\ \A c \in 1 .. MaxScale :
               /\ RetrievedScaled(c).outcome = outcome
               /\ \A i \in 1 .. CorpusSize :
                      LET scaled == similarity_of[<<Scaled(c, query_embedding),
                                                    document_embeddings[i].embedding>>]
                      IN  IF IsRaise(ScoreOfDoc(i)) THEN IsRaise(scaled)
                          ELSE /\ ~IsRaise(scaled)
                               /\ WithinOf(scaled, ScoreOfDoc(i),
                                           4 * Len(query_embedding) + 10)

\* A ranking of three with distinct scores that the query's double and
\* quadruple reproduce, and a similarity that the query's triple changes.
C12_Witness ==
    /\ Returned
    /\ Len(retrieved_texts) = 3
    /\ FLess(ScoreOfDoc(Rank(2)), ScoreOfDoc(Rank(1)))
    /\ FLess(ScoreOfDoc(Rank(3)), ScoreOfDoc(Rank(2)))
    /\ RetrievedScaled(4).retrieved_texts = retrieved_texts
    /\ \E i \in 1 .. CorpusSize :
           similarity_of[<<Scaled(3, query_embedding),
                           document_embeddings[i].embedding>>] # ScoreOfDoc(i)
C18_PrefixMonotone ==
    (Returned /\ num_documents_to_retrieve >= 1) =>
        /\ Len(retrieved_texts) = Min(num_documents_to_retrieve, CorpusSize)
        /\ RetrievedWith(num_documents_to_retrieve + 1).outcome = "returned"
        /\ IsPrefix(retrieved_texts,
                    RetrievedWith(num_documents_to_retrieve + 1).retrieved_texts)

\* k = 1 over three documents of distinct scores: k = 2 returns one more.
C18_Witness ==
    /\ Returned
    /\ num_documents_to_retrieve = 1
    /\ CorpusSize = 3
    /\ FLess(similarities[2][1], similarities[1][1])
    /\ FLess(similarities[3][1], similarities[2][1])
    /\ Len(RetrievedWith(2).retrieved_texts) = 2
    /\ RetrievedWith(2).retrieved_texts[1] = retrieved_texts[1]
\* C14: a retrieve_documents call, returning or raising, and its end leave
\* the corpus as it was: same length, same order, same text and vector in
\* every entry.
C14_CorpusUntouched ==
    [][(outcome' # outcome) => (document_embeddings' = document_embeddings)]_vars

\* A call that ranked the third entry first, and the corpus still in
\* document order.
C14_Witness ==
    /\ Returned
    /\ CorpusSize = 3
    /\ retrieved_texts # <<>>
    /\ retrieved_texts[1] = documents[3]
    /\ \A i \in 1 .. CorpusSize : document_embeddings[i].text = documents[i]
\* C19: the index build starts from the empty corpus and appends one entry
\* per (document, embedding) pair in document order: while it runs, and when
\* it is done, entry i holds documents[i] and the i-th returned embedding;
\* when it is done the corpus has min(len(documents), number of embeddings)
\* entries, so with fewer embeddings than documents the trailing documents
\* are missing and the cell has ended without raising.
C19_IndexBuilt ==
    /\ (index_pc = "embedding") => (document_embeddings = <<>>)
    /\ (index_pc \in {"looping", "done"}) =>
           /\ CorpusSize <= Min(Len(documents), Len(embeddings_list))
           /\ \A i \in 1 .. CorpusSize :
                  /\ document_embeddings[i].text = documents[i]
                  /\ document_embeddings[i].embedding = embeddings_list[i]
    /\ (index_pc = "done") =>
           (CorpusSize = Min(Len(documents), Len(embeddings_list)))
    /\ (index_pc = "raised") => (document_embeddings = <<>>)

\* Three embeddings, not all the same, came back for the eight documents:
\* the cell is done with a corpus of three.
C19_Witness ==
    /\ index_pc = "done"
    /\ Len(embeddings_list) = 3
    /\ embeddings_list[1] # embeddings_list[3]
    /\ CorpusSize = 3
    /\ document_embeddings[3].text = "Earth"
\* C16: perform_rag retrieves, then augments, then generates: a generation
\* call is made only after retrieve_documents returned and the prompt was
\* built, and its contents are the lead and "Context:", the retrieved texts
\* in rank order with a newline between neighbours, a blank line,
\* "Question: " and the query, and the answer cue; a call whose retrieval
\* raised makes no generation call and returns no answer.
C16_RetrieveAugmentGenerate ==
    /\ (generate_calls # <<>>) =>
           /\ Len(generate_calls) = 1
           /\ Len(rag_events) >= 3
           /\ rag_events[1] = "retrieve_documents returned"
           /\ rag_events[2] = "augmented"
           /\ rag_events[3] \in {"generate_content returned", "generate_content raised"}
           /\ Returned
           /\ LET prompt == generate_calls[1]
                  n == Len(retrieved_texts)
              IN  /\ Len(prompt) = 2 + Max(2 * n - 1, 0) + 4
                  /\ prompt[1] = PromptLead
                  /\ prompt[2] = "Context:\n"
                  /\ \A j \in 1 .. n : prompt[2 * j + 1] = retrieved_texts[j]
                  /\ \A j \in 1 .. n - 1 : prompt[2 * j + 2] = "\n"
                  /\ SubSeq(prompt, Len(prompt) - 3, Len(prompt)) =
                         <<"\n\n", "Question: ", query, "\n\nAnswer:">>
    /\ (rag_return # None) => (generate_calls # <<>> /\ rag_pc = "returned")
    /\ (rag_events # <<>> /\ rag_events[1] = "retrieve_documents raised") =>
           /\ rag_events = <<"retrieve_documents raised">>
           /\ outcome = "raised"
           /\ rag_pc = "raised"
           /\ generate_calls = <<>>
           /\ rag_return = None

\* A call that returned an answer generated from three retrieved texts of
\* distinct scores, the third document first.
C16_Witness ==
    /\ rag_pc = "returned"
    /\ rag_return # None
    /\ Len(retrieved_texts) = 3
    /\ retrieved_texts[1] = documents[3]
    /\ FLess(similarities[2][1], similarities[1][1])
    /\ FLess(similarities[3][1], similarities[2][1])
    /\ generate_calls[1][3] = documents[3]
\* C15: with calls of several threads interleaved step by step over the
\* same corpus, every call ends as it would alone: it returns the texts the
\* call alone returns, or raises when the call alone raises; and the corpus
\* stays as built.
C15_ThreadSafe ==
    /\ document_embeddings = zip_documents(documents, embeddings_list)
    /\ \A t \in Threads :
           /\ (thread_pc[t] = "returned") =>
                  /\ AloneResult(t).outcome = "returned"
                  /\ thread_retrieved_texts[t] = AloneResult(t).retrieved_texts
           /\ (thread_pc[t] = "raised") => (AloneResult(t).outcome = "raised")

\* Thread 1 returned two texts while thread 2, with another query, is in
\* the middle of its loop.
C15_Witness ==
    /\ thread_pc[1] = "returned"
    /\ Len(thread_retrieved_texts[1]) = 2
    /\ thread_pc[2] = "loop"
    /\ thread_i[2] = 2
    /\ thread_query_embedding[2] # thread_query_embedding[1]
\* C13: two calls over the same corpus with the same query embedding and
\* the same k, however their steps and those of other calls are ordered,
\* return the same sequence of texts; and where two returned texts have the
\* same similarity, the one inserted first in the corpus comes first.
C13_Deterministic ==
    /\ \A t, u \in Threads :
           (/\ thread_pc[t] = "returned"
            /\ thread_pc[u] = "returned"
            /\ thread_query_embedding[t] = thread_query_embedding[u]
            /\ thread_k[t] = thread_k[u]) =>
               thread_retrieved_texts[t] = thread_retrieved_texts[u]
    /\ \A t \in Threads :
           (thread_pc[t] = "returned") =>
               \A i, j \in 1 .. Len(thread_retrieved_texts[t]) :
                   (/\ i < j
                    /\ ThreadScoreOf(t, thread_retrieved_texts[t][i]) =
                           ThreadScoreOf(t, thread_retrieved_texts[t][j])) =>
                       DocIndex(thread_retrieved_texts[t][i]) <
                           DocIndex(thread_retrieved_texts[t][j])

\* Both threads returned from the same call, with a tie between the first
\* and the third entry of the corpus in the result.
C13_Witness ==
    /\ thread_pc[1] = "returned"
    /\ thread_pc[2] = "returned"
    /\ thread_query_embedding[1] = thread_query_embedding[2]
    /\ thread_k[1] = thread_k[2]
    /\ thread_retrieved_texts[1] = <<documents[1], documents[3]>>
    /\ ThreadScoreOf(1, documents[1]) = ThreadScoreOf(1, documents[3])
    /\ thread_retrieved_texts[2] = thread_retrieved_texts[1]
\* C20: what call_agent_and_print prints as the response, it prints after
\* the stream has ended, and it is the text of the first part of the last
\* yielded event that is a final response with parts, or
\* "No final response received." when no event is; and a stored output that
\* is None (a missing key) or a str that is not JSON is printed as it is,
\* the call ending without an exception.
C20_LastFinalResponse ==
    /\ (agent_pc = "streaming") => (printed = <<>>)
    /\ (agent_pc \in {"reported", "done"}) =>
           /\ printed # <<>>
           /\ printed[1] =
                  IF FinalResponsesWithParts = {} THEN NoFinalResponse
                  ELSE TextOfEvent(Last(FinalResponsesWithParts))
    /\ (agent_pc = "done" /\ (stored_output = None \/ NotJson(stored_output))) =>
           /\ Len(printed) = 2
           /\ printed[2] = stored_output
    /\ (agent_pc = "raised") => (printed = <<>>)

\* Two final responses with parts were yielded, then a final response
\* without content: the second one's text was printed, and then the missing
\* stored output.
C20_Witness ==
    /\ agent_pc = "done"
    /\ Len(events) = 3
    /\ FinalResponsesWithParts = {1, 2}
    /\ TextOfEvent(1) # TextOfEvent(2)
    /\ printed[1] = TextOfEvent(2)
    /\ stored_output = None
    /\ printed[2] = None
\* C21: get_capital_city returns for every string: the capital of a known
\* country whatever letters of its name are capital, and for a string that
\* is no spelling of a known key the message "Sorry, I couldn't find the
\* capital for <country>." with the argument as it was given.
C21_CapitalCity ==
    CapitalCityCalled =>
        /\ \A item \in country_capitals :
               IsSpellingOf(country, item.key) => capital_city_ret.value = item.value
        /\ (\A item \in country_capitals : ~IsSpellingOf(country, item.key)) =>
               /\ Len(capital_city_ret.value) = Len(country) + 2
               /\ capital_city_ret.value[1] = "Sorry, I couldn't find the capital for "
               /\ SubSeq(capital_city_ret.value, 2, Len(country) + 1) = country
               /\ capital_city_ret.value[Len(country) + 2] = "."

\* "jApAN" is answered with Tokyo.
C21_Witness ==
    /\ CapitalCityCalled
    /\ country = <<"j", "A", "p", "A", "N">>
    /\ capital_city_ret.value = <<"Tokyo">>

====
